---- MODULE Spec2Model ----
(***************************************************************************)
(* State-machine model of the boltzmann-machines repository:               *)
(*   hdp_dbm/utils/utils.py   batch_iter, make_k_folds                     *)
(*   examples/dbm_cifar.py    make_small_rbms, make_large_weights          *)
(*   hdp_dbm/rbm.py           BaseRBM._make_train_op, BaseRBM._fit         *)
(* One routine runs per behaviour; the routine and its arguments are       *)
(* chosen in Init, the other routines' frames stay Idle.                   *)
(***************************************************************************)
EXTENDS Integers, Sequences, FiniteSets

VARIABLES batchIter, kfolds, cifar, trainOp, pll, fit

vars == <<batchIter, kfolds, cifar, trainOp, pll, fit>>

Idle == [pc |-> "idle"]

(* ------------------------------------------------------------------ *)
(* Bounds of the model                                                 *)
(* ------------------------------------------------------------------ *)
MaxRows == 4
MaxRowValue == 1
MaxBatchSize == 3
MaxSamples == 3
MaxLabel == 1
MaxFolds == 3
MaxSeed == 1
RngPeriod == 5
MaxRestarts == 1
MaxGibbsSteps == 3
MaxBatchRows == 2
MaxVisible == 2
MaxEpoch == 4
MaxDfeEvery == 3

(* ------------------------------------------------------------------ *)
(* Generic helpers                                                     *)
(* ------------------------------------------------------------------ *)
Min(a, b) == IF a <= b THEN a ELSE b

SeqsUpTo(S, n) == UNION {[1..m -> S] : m \in 0..n}

RECURSIVE Concatenate(_)
Concatenate(seqs) ==
    IF seqs = <<>> THEN <<>> ELSE Head(seqs) \o Concatenate(Tail(seqs))

(* ------------------------------------------------------------------ *)
(* utils.batch_iter                                                    *)
(* ------------------------------------------------------------------ *)
\* X[lo:hi-1]: the slice with its end one short.
SliceShort(X, lo, hi) ==
    SubSeq(X, Min(lo, Len(X)) + 1, Min(hi, Len(X)) - 1)

\* numpy basic slicing X[lo:hi] along axis 0 (0-based, hi exclusive, both
\* clipped to the length), on a sequence indexed from 1.
Slice(X, lo, hi) ==
    SubSeq(X, Min(lo, Len(X)) + 1, Min(hi, Len(X)))

InitBatchIter ==
    /\ \E X \in SeqsUpTo(0..MaxRowValue, MaxRows), batch_size \in 1..MaxBatchSize :
          batchIter = [pc |-> "loop", X |-> X, batch_size |-> batch_size,
                       start_index |-> 0, yielded |-> <<>>]
    /\ kfolds = Idle /\ cifar = Idle /\ trainOp = Idle /\ pll = Idle /\ fit = Idle

\* One pass of `for start_index in range(0, X.shape[0], batch_size)`: yield.
BatchIterYield ==
    /\ batchIter.pc = "loop"
    /\ batchIter.start_index < Len(batchIter.X)
    /\ batchIter' = [batchIter EXCEPT
          !.yielded = Append(@, Slice(batchIter.X, batchIter.start_index,
                                      batchIter.start_index + batchIter.batch_size)),
          !.start_index = @ + batchIter.batch_size]
    /\ UNCHANGED <<kfolds, cifar, trainOp, pll, fit>>

\* The range is exhausted: the generator returns.
BatchIterStop ==
    /\ batchIter.pc = "loop"
    /\ batchIter.start_index >= Len(batchIter.X)
    /\ batchIter' = [batchIter EXCEPT !.pc = "done"]
    /\ UNCHANGED <<kfolds, cifar, trainOp, pll, fit>>

(* ------------------------------------------------------------------ *)
(* utils.make_k_folds                                                  *)
(* ------------------------------------------------------------------ *)
\* Python's None / a given integer seed: an optional value is a sequence of
\* length 0 or 1.
None == <<>>

Seeds == {None} \cup {<<s>> : s \in 0..MaxSeed}

\* np.arange(n): the indices 0..n-1 in order.
Arange(n) == [i \in 1..n |-> i - 1]

\* RNG(seed): a numpy RandomState.  A given seed fixes the generator state;
\* seed None takes the state from the operating system's entropy.
RNGSeed(seed, entropy) ==
    IF seed = None THEN entropy ELSE seed[1] % RngPeriod

\* One bounded draw of the generator: a value in 0..max and the next state.
RkInterval(max, state) ==
    [value |-> state % (max + 1), state |-> (state + 1) % RngPeriod]

\* RandomState.shuffle: Fisher-Yates from the last position down,
\*   for i in reversed(range(1, n)): j = rk_interval(i); x[i], x[j] = x[j], x[i]
RECURSIVE ShuffleFrom(_, _, _)
ShuffleFrom(x, i, state) ==
    IF i < 1 THEN [array |-> x, state |-> state]
    ELSE LET d == RkInterval(i, state)
             j == d.value
             swapped == [x EXCEPT ![i + 1] = x[j + 1], ![j + 1] = x[i + 1]]
         IN  ShuffleFrom(swapped, i - 1, d.state)

RNGShuffle(x, state) == ShuffleFrom(x, Len(x) - 1, state)

\* RandomState.permutation(n) = shuffle(arange(n)).
RNGPermutation(n, state) == RNGShuffle(Arange(n), state)

\* A generator constructed without the caller's seed.
NewRngUnseeded(random_seed, entropy) == RNGSeed(None, entropy)

\* rng = RNG(random_seed)
NewRng(random_seed, entropy) == RNGSeed(random_seed, entropy)

\* A split that gives the whole remainder to the first section.
ArraySplitFrontLoaded(ary, n) ==
    LET Neach == Len(ary) \div n
        extras == Len(ary) % n
        DivPoint(i) == IF i = 0 THEN 0 ELSE i * Neach + extras
    IN  [i \in 1..n |-> Slice(ary, DivPoint(i - 1), DivPoint(i))]

\* np.array_split(ary, n): n sections, the first len % n of them one longer.
ArraySplit(ary, n) ==
    LET Neach == Len(ary) \div n
        extras == Len(ary) % n
        DivPoint(i) == i * Neach + Min(i, extras)
    IN  [i \in 1..n |-> Slice(ary, DivPoint(i - 1), DivPoint(i))]

\* The keys of labels_indices: the labels that occur in y.
LabelsOf(y) == {y[i] : i \in 1..Len(y)}

\* labels_indices[label]: the indices carrying the label, in enumerate order.
IndicesOf(y, label) ==
    LET HasLabel(i) == y[i + 1] = label
    IN  SelectSeq(Arange(Len(y)), HasLabel)

\* sorted(labels_indices.items()): the labels in ascending order.
RECURSIVE SortedLabels(_)
SortedLabels(S) ==
    IF S = {} THEN <<>>
    ELSE LET m == CHOOSE x \in S : \A z \in S : x <= z
         IN  <<m>> \o SortedLabels(S \ {m})

\* labels_indices after "split all indices label-wisely".
LabelSplits(y, n_folds) ==
    [label \in LabelsOf(y) |-> ArraySplit(IndicesOf(y, label), n_folds)]

\* [indices[k] for _, indices in sorted(labels_indices.items())]
FoldParts(splits, k) ==
    LET order == SortedLabels(DOMAIN splits)
    IN  [p \in 1..Len(order) |-> splits[order[p]][k + 1]]

InitKFolds ==
    /\ \E y \in SeqsUpTo(0..MaxLabel, MaxSamples), n_folds \in 2..MaxFolds,
          shuffle \in BOOLEAN, stratify \in BOOLEAN,
          seed1 \in Seeds, seed2 \in Seeds :
          kfolds = [pc |-> "call", run |-> 1, y |-> y, n_folds |-> n_folds,
                    shuffle |-> shuffle, stratify |-> stratify,
                    random_seed |-> <<seed1, seed2>>,
                    rng |-> 0, splits |-> <<>>, k |-> 0,
                    folds |-> <<>>, results |-> <<>>]
    /\ batchIter = Idle /\ cifar = Idle /\ trainOp = Idle /\ pll = Idle /\ fit = Idle

\* The generator body up to the loop that yields (lines 72-77, 81-92).
KFoldsStart ==
    /\ kfolds.pc = "call"
    /\ \E entropy \in 0..(RngPeriod - 1) :
          LET n == Len(kfolds.y)
              rng == NewRng(kfolds.random_seed[kfolds.run], entropy)
              perm == RNGPermutation(n, rng)
          IN  IF ~kfolds.stratify
              THEN kfolds' = [kfolds EXCEPT
                      !.pc = "plain",
                      !.rng = IF kfolds.shuffle THEN perm.state ELSE rng,
                      !.splits = ArraySplit(IF kfolds.shuffle THEN perm.array
                                            ELSE Arange(n), kfolds.n_folds),
                      !.k = 0, !.folds = <<>>]
              ELSE kfolds' = [kfolds EXCEPT
                      !.pc = "stratified",
                      !.rng = rng,
                      !.splits = LabelSplits(kfolds.y, kfolds.n_folds),
                      !.k = 0, !.folds = <<>>]
    /\ UNCHANGED <<batchIter, cifar, trainOp, pll, fit>>

\* for fold in np.array_split(indices, n_folds): yield fold
KFoldsYieldPlain ==
    /\ kfolds.pc = "plain"
    /\ kfolds.k < kfolds.n_folds
    /\ kfolds' = [kfolds EXCEPT !.folds = Append(@, kfolds.splits[kfolds.k + 1]),
                                !.k = @ + 1]
    /\ UNCHANGED <<batchIter, cifar, trainOp, pll, fit>>

\* for k in xrange(n_folds): fold = np.concatenate([...]); shuffle; yield
KFoldsYieldStratified ==
    /\ kfolds.pc = "stratified"
    /\ kfolds.k < kfolds.n_folds
    /\ DOMAIN kfolds.splits # {}
    /\ LET fold == Concatenate(FoldParts(kfolds.splits, kfolds.k))
           sh == RNGShuffle(fold, kfolds.rng)
       IN  kfolds' = [kfolds EXCEPT
              !.folds = Append(@, IF kfolds.shuffle THEN sh.array ELSE fold),
              !.rng = IF kfolds.shuffle THEN sh.state ELSE @,
              !.k = @ + 1]
    /\ UNCHANGED <<batchIter, cifar, trainOp, pll, fit>>

\* The end of one call: its outcome is kept and the second call, with the
\* same y, n_folds, shuffle and stratify, begins.
KFoldsFinish(status) ==
    kfolds' = [kfolds EXCEPT
        !.results = Append(@, [status |-> status, folds |-> kfolds.folds]),
        !.pc = IF kfolds.run = 1 THEN "call" ELSE "done",
        !.run = IF kfolds.run = 1 THEN 2 ELSE @]

\* np.concatenate of an empty list (no label at all) raises ValueError.
KFoldsRaise ==
    /\ kfolds.pc = "stratified"
    /\ kfolds.k < kfolds.n_folds
    /\ DOMAIN kfolds.splits = {}
    /\ KFoldsFinish("ValueError")
    /\ UNCHANGED <<batchIter, cifar, trainOp, pll, fit>>

\* The loop is exhausted: the generator returns.
KFoldsReturn ==
    /\ kfolds.pc \in {"plain", "stratified"}
    /\ kfolds.k >= kfolds.n_folds
    /\ KFoldsFinish("returned")
    /\ UNCHANGED <<batchIter, cifar, trainOp, pll, fit>>

(* ------------------------------------------------------------------ *)
(* examples/dbm_cifar.py: make_small_rbms, make_large_weights          *)
(* ------------------------------------------------------------------ *)
\* Program constants of the script.
ImageSide == 32
PatchSide == 8
GridOuter == 4
GridInner == 3
InnerOffset == 4
NHiddenSmall == 300
NSmallRbms == 26
PoolSide == 4
LastRbmId == 25

Pixels == (0..(ImageSide - 1)) \X (0..(ImageSide - 1))

\* The pixels of a [rows[1]:rows[2], cols[1]:cols[2]] slice of an image.
Rect(rows, cols) ==
    {px \in Pixels : /\ rows[1] <= px[1] /\ px[1] < rows[2]
                     /\ cols[1] <= px[2] /\ px[2] < cols[2]}

\* rbm_id = 4 * i + j                                   (make_small_rbms)
SmallRbmIdOuter(i, j) == GridOuter * i + j

\* rbm_id = 16 + 3 * i + j                              (make_small_rbms)
SmallRbmIdInner(i, j) == GridOuter * GridOuter + GridInner * i + j

\* X_train[:, 8 * i:8 * (i + 1), 8 * j:8 * (j + 1), :]
SmallPatchOuter(i, j) ==
    [kind |-> "patch",
     rows |-> <<PatchSide * i, PatchSide * (i + 1)>>,
     cols |-> <<PatchSide * j, PatchSide * (j + 1)>>]

\* X_train[:, 4 + 8 * i:4 + 8 * (i + 1), 4 + 8 * j:4 + 8 * (j + 1), :]
SmallPatchInner(i, j) ==
    [kind |-> "patch",
     rows |-> <<InnerOffset + PatchSide * i, InnerOffset + PatchSide * (i + 1)>>,
     cols |-> <<InnerOffset + PatchSide * j, InnerOffset + PatchSide * (j + 1)>>]

\* reshape((-1, 3, 4, 8, 4, 8)) of an (N, 3, 32, 32) array: within one image
\* channel the C-order position 32 * r + c gets the index <<a, b, d, e>> of
\* the trailing axes of sizes (4, 8, 4, 8).
ReshapeIndex(r, c) ==
    LET flat == ImageSide * r + c
    IN  <<flat \div (PatchSide * PoolSide * PatchSide),
          (flat \div (PoolSide * PatchSide)) % PatchSide,
          (flat \div PatchSide) % PoolSide,
          flat % PatchSide>>

\* .mean(axis=4).mean(axis=2): the mean runs over the axes of size 4 (d, then
\* a) and leaves an (8, 8) image indexed by <<b, e>>; the value at <<b, e>>
\* is the mean of the pixels listed here.
MeanPoolSources ==
    [be \in (0..(PatchSide - 1)) \X (0..(PatchSide - 1)) |->
        {px \in Pixels : LET ix == ReshapeIndex(px[1], px[2])
                         IN  ix[2] = be[1] /\ ix[4] = be[2]}]

\* The training data of small RBM #25.
SmallDataLast == [kind |-> "mean", sources |-> MeanPoolSources]

\* GaussianRBM(random_seed=9000 + rbm_id, model_path=rbm_dirpath).fit(X_patches)
TrainedRbm(rbm_id, data) == [id |-> rbm_id, data |-> data]

\* if os.path.isdir(rbm_dirpath): load_model(rbm_dirpath) else: train; the
\* training leaves the model in rbm_dirpath.
ObtainRbm(rbm_id, data, disk) ==
    IF rbm_id \in DOMAIN disk THEN disk[rbm_id] ELSE TrainedRbm(rbm_id, data)

SaveRbm(rbm, disk) ==
    [d \in (DOMAIN disk) \cup {rbm.id} |-> IF d = rbm.id THEN rbm ELSE disk[d]]

\* Advance `for i in xrange(n): for j in xrange(n)` by one body execution.
NextIJ(i, j, n) == IF j + 1 < n THEN <<i, j + 1>> ELSE <<i + 1, 0>>

NoDisk == [d \in {} |-> Idle]

InitCifar ==
    /\ cifar = [pc |-> "small_outer", i |-> 0, j |-> 0, disk |-> NoDisk,
                restarts |-> 0, small_rbms |-> <<>>, W |-> <<>>, hb |-> <<>>]
    /\ batchIter = Idle /\ kfolds = Idle /\ trainOp = Idle /\ pll = Idle /\ fit = Idle

\* One body execution of the "first 16" loop of make_small_rbms.
SmallRbmOuter ==
    /\ cifar.pc = "small_outer"
    /\ LET rbm == ObtainRbm(SmallRbmIdOuter(cifar.i, cifar.j),
                            SmallPatchOuter(cifar.i, cifar.j), cifar.disk)
           ij == NextIJ(cifar.i, cifar.j, GridOuter)
       IN  cifar' = [cifar EXCEPT
              !.small_rbms = Append(@, rbm),
              !.disk = SaveRbm(rbm, @),
              !.i = IF ij[1] < GridOuter THEN ij[1] ELSE 0,
              !.j = ij[2],
              !.pc = IF ij[1] < GridOuter THEN "small_outer" ELSE "small_inner"]
    /\ UNCHANGED <<batchIter, kfolds, trainOp, pll, fit>>

\* One body execution of the "next 9" loop of make_small_rbms.
SmallRbmInner ==
    /\ cifar.pc = "small_inner"
    /\ LET rbm == ObtainRbm(SmallRbmIdInner(cifar.i, cifar.j),
                            SmallPatchInner(cifar.i, cifar.j), cifar.disk)
           ij == NextIJ(cifar.i, cifar.j, GridInner)
       IN  cifar' = [cifar EXCEPT
              !.small_rbms = Append(@, rbm),
              !.disk = SaveRbm(rbm, @),
              !.i = IF ij[1] < GridInner THEN ij[1] ELSE 0,
              !.j = ij[2],
              !.pc = IF ij[1] < GridInner THEN "small_inner" ELSE "small_last"]
    /\ UNCHANGED <<batchIter, kfolds, trainOp, pll, fit>>

\* "... the last one" and `return small_rbms`.
SmallRbmLast ==
    /\ cifar.pc = "small_last"
    /\ LET rbm == ObtainRbm(LastRbmId, SmallDataLast, cifar.disk)
       IN  cifar' = [cifar EXCEPT
              !.small_rbms = Append(@, rbm),
              !.disk = SaveRbm(rbm, @),
              !.pc = "large_outer"]
    /\ UNCHANGED <<batchIter, kfolds, trainOp, pll, fit>>

\* The script is stopped while the small RBMs are being made and is started
\* again: the directories written so far are still there.
CifarRestart ==
    /\ cifar.pc \in {"small_outer", "small_inner", "small_last"}
    /\ cifar.restarts < MaxRestarts
    /\ cifar' = [cifar EXCEPT !.pc = "small_outer", !.i = 0, !.j = 0,
                              !.small_rbms = <<>>, !.restarts = @ + 1]
    /\ UNCHANGED <<batchIter, kfolds, trainOp, pll, fit>>

\* rbm_id = 4 * i + j                                   (make_large_weights)
LargeRbmIdOuter(i, j) == GridOuter * i + j

\* rbm_id = 16 + 3 * j + i: the grid walked column by column.
LargeRbmIdInnerTransposed(i, j) == GridOuter * GridOuter + GridInner * j + i

\* rbm_id = 16 + 3 * i + j                              (make_large_weights)
LargeRbmIdInner(i, j) == GridOuter * GridOuter + GridInner * i + j

\* The hidden-unit slice [300 * rbm_id: 300 * (rbm_id + 1)].
HiddenSlice(rbm_id) == <<NHiddenSmall * rbm_id, NHiddenSmall * (rbm_id + 1)>>

\* The slice [-300:] of the 300 * 26 hidden units.
HiddenSliceLast ==
    <<NHiddenSmall * NSmallRbms - NHiddenSmall, NHiddenSmall * NSmallRbms>>

\* W[300*id : 300*(id+1), 8*i : 8*(i+1), 8*j : 8*(j+1), :] = W_small
\* hb[300*id : 300*(id+1)] = weights['hb']
LargeWeightsOuter ==
    /\ cifar.pc = "large_outer"
    /\ LET rbm_id == LargeRbmIdOuter(cifar.i, cifar.j)
           src == cifar.small_rbms[rbm_id + 1]
           ij == NextIJ(cifar.i, cifar.j, GridOuter)
       IN  cifar' = [cifar EXCEPT
              !.W = Append(@, [hidden |-> HiddenSlice(rbm_id),
                               rows |-> <<PatchSide * cifar.i, PatchSide * (cifar.i + 1)>>,
                               cols |-> <<PatchSide * cifar.j, PatchSide * (cifar.j + 1)>>,
                               from |-> src.id]),
              !.hb = Append(@, [hidden |-> HiddenSlice(rbm_id), from |-> src.id]),
              !.i = IF ij[1] < GridOuter THEN ij[1] ELSE 0,
              !.j = ij[2],
              !.pc = IF ij[1] < GridOuter THEN "large_outer" ELSE "large_inner"]
    /\ UNCHANGED <<batchIter, kfolds, trainOp, pll, fit>>

\* W[300*id : 300*(id+1), 4 + 8*i : 4 + 8*(i+1), 4 + 8*j : 4 + 8*(j+1), :] = W_small
LargeWeightsInner ==
    /\ cifar.pc = "large_inner"
    /\ LET rbm_id == LargeRbmIdInner(cifar.i, cifar.j)
           src == cifar.small_rbms[rbm_id + 1]
           ij == NextIJ(cifar.i, cifar.j, GridInner)
       IN  cifar' = [cifar EXCEPT
              !.W = Append(@, [hidden |-> HiddenSlice(rbm_id),
                               rows |-> <<InnerOffset + PatchSide * cifar.i,
                                          InnerOffset + PatchSide * (cifar.i + 1)>>,
                               cols |-> <<InnerOffset + PatchSide * cifar.j,
                                          InnerOffset + PatchSide * (cifar.j + 1)>>,
                               from |-> src.id]),
              !.hb = Append(@, [hidden |-> HiddenSlice(rbm_id), from |-> src.id]),
              !.i = IF ij[1] < GridInner THEN ij[1] ELSE 0,
              !.j = ij[2],
              !.pc = IF ij[1] < GridInner THEN "large_inner" ELSE "large_last"]
    /\ UNCHANGED <<batchIter, kfolds, trainOp, pll, fit>>

\* W[-300:, 4*i : 4*(i+1), 4*j : 4*(j+1), :] = U / 16.;  hb[-300:] = weights['hb']
\* for i, j in xrange(8), with the weights of small_rbms[25].
LargeWeightsLast ==
    /\ cifar.pc = "large_last"
    /\ LET src == cifar.small_rbms[LastRbmId + 1]
           ij == NextIJ(cifar.i, cifar.j, PatchSide)
       IN  cifar' = [cifar EXCEPT
              !.W = Append(@, [hidden |-> HiddenSliceLast,
                               rows |-> <<PoolSide * cifar.i, PoolSide * (cifar.i + 1)>>,
                               cols |-> <<PoolSide * cifar.j, PoolSide * (cifar.j + 1)>>,
                               from |-> src.id]),
              !.hb = Append(@, [hidden |-> HiddenSliceLast, from |-> src.id]),
              !.i = IF ij[1] < PatchSide THEN ij[1] ELSE 0,
              !.j = ij[2],
              !.pc = IF ij[1] < PatchSide THEN "large_last" ELSE "done"]
    /\ UNCHANGED <<batchIter, kfolds, trainOp, pll, fit>>

\* The assignments to W that reach hidden unit h.
WritesTo(h) ==
    {n \in DOMAIN cifar.W : cifar.W[n].hidden[1] <= h /\ h < cifar.W[n].hidden[2]}

\* The pixels at which row h of W was assigned (elsewhere it is still the
\* zero np.zeros put there).
WSupport(h) == UNION {Rect(cifar.W[n].rows, cifar.W[n].cols) : n \in WritesTo(h)}

\* The small RBMs whose weights were assigned into row h of W.
WOwners(h) == {cifar.W[n].from : n \in WritesTo(h)}

\* hb[h]: the small RBM and its hidden unit whose bias the last assignment
\* covering h put there (<<>> while it is still the initial zero).
HbAt(h) ==
    LET covering == {n \in DOMAIN cifar.hb :
                        cifar.hb[n].hidden[1] <= h /\ h < cifar.hb[n].hidden[2]}
    IN  IF covering = {} THEN <<>>
        ELSE LET last == CHOOSE n \in covering : \A m \in covering : m <= n
             IN  <<cifar.hb[last].from, h - cifar.hb[last].hidden[1]>>

(* ------------------------------------------------------------------ *)
(* rbm.BaseRBM._make_train_op: the Gibbs chain and the gradient graph  *)
(* ------------------------------------------------------------------ *)
\* A node of the TensorFlow graph.  kind: "data" is the placeholder X_batch,
\* "means" a sigmoid activation (probabilities), "samples" the binary states
\* tf.less(rand, means); layer: "v" or "h"; driven: whether the node was
\* computed from the data or from a reconstruction.
Tensor(kind, layer, driven) == [kind |-> kind, layer |-> layer, driven |-> driven]

NoTensor == Tensor("None", "", "")

XBatch == Tensor("data", "v", "data")

\* _sample_h_given_v(v) = (h_means, h_samples)
SampleHGivenV(v) ==
    LET driven == IF v.kind = "data" THEN "data" ELSE "recon"
    IN  <<Tensor("means", "h", driven), Tensor("samples", "h", driven)>>

\* _sample_v_given_h(h) = (v_means, v_samples)
SampleVGivenH(h) ==
    <<Tensor("means", "v", "recon"), Tensor("samples", "v", "recon")>>

InitTrainOp ==
    /\ \E n_gibbs_steps \in 0..MaxGibbsSteps :
          trainOp = [pc |-> "gibbs_chain", n_gibbs_steps |-> n_gibbs_steps,
                     sweep |-> 0,
                     h0_means |-> NoTensor, h0_samples |-> NoTensor,
                     v_means |-> NoTensor, v_samples |-> NoTensor,
                     h_means |-> NoTensor, h_samples |-> NoTensor,
                     h_states |-> NoTensor, v_states |-> NoTensor,
                     fed |-> <<>>,
                     dW_positive |-> <<>>, dW_negative |-> <<>>,
                     dhb |-> <<>>, dvb |-> <<>>, msre |-> <<>>]
    /\ batchIter = Idle /\ kfolds = Idle /\ cifar = Idle /\ pll = Idle /\ fit = Idle

\* h0_means, h0_samples = self._sample_h_given_v(self._X_batch)
\* h_states, v_states = h0_samples, None
TrainOpChainHead ==
    /\ trainOp.pc = "gibbs_chain"
    /\ LET h0 == SampleHGivenV(XBatch)
       IN  trainOp' = [trainOp EXCEPT !.h0_means = h0[1], !.h0_samples = h0[2],
                                      !.h_states = h0[2], !.pc = "sweep"]
    /\ UNCHANGED <<batchIter, kfolds, cifar, pll, fit>>

\* One pass of `for _ in xrange(self.n_gibbs_steps)`.
TrainOpSweep ==
    /\ trainOp.pc = "sweep"
    /\ trainOp.sweep < trainOp.n_gibbs_steps
    /\ LET v == SampleVGivenH(trainOp.h_states)
           v_states == v[1]
           h == SampleHGivenV(v_states)
       IN  trainOp' = [trainOp EXCEPT
              !.v_means = v[1], !.v_samples = v[2], !.v_states = v_states,
              !.h_means = h[1], !.h_samples = h[2], !.h_states = h[1],
              !.fed = @ \o <<trainOp.h_states, v_states>>,
              !.sweep = @ + 1]
    /\ UNCHANGED <<batchIter, kfolds, cifar, pll, fit>>

\* transform_op = tf.identity(h_means): with no sweep h_means is still None
\* and the graph construction raises.
TrainOpTransform ==
    /\ trainOp.pc = "sweep"
    /\ trainOp.sweep >= trainOp.n_gibbs_steps
    /\ trainOp' = [trainOp EXCEPT
          !.pc = IF trainOp.h_means = NoTensor THEN "raised" ELSE "grads"]
    /\ UNCHANGED <<batchIter, kfolds, cifar, pll, fit>>

\* The gradient estimates (positive - negative associations): the factors of
\* each product and the terms of each difference.
TrainOpGrads ==
    /\ trainOp.pc = "grads"
    /\ trainOp' = [trainOp EXCEPT
          !.dW_positive = <<XBatch, trainOp.h0_means>>,
          !.dW_negative = <<trainOp.v_samples, trainOp.h_means>>,
          !.dhb = <<trainOp.h0_means, trainOp.h_means>>,
          !.dvb = <<XBatch, trainOp.v_samples>>,
          !.pc = "metrics"]
    /\ UNCHANGED <<batchIter, kfolds, cifar, pll, fit>>

\* msre = tf.reduce_mean(tf.square(self._X_batch - v_means))
TrainOpMetrics ==
    /\ trainOp.pc = "metrics"
    /\ trainOp' = [trainOp EXCEPT !.msre = <<XBatch, trainOp.v_means>>, !.pc = "done"]
    /\ UNCHANGED <<batchIter, kfolds, cifar, pll, fit>>

(* ------------------------------------------------------------------ *)
(* rbm.BaseRBM._make_train_op: the pseudo-log-likelihood corruption    *)
(* ------------------------------------------------------------------ *)
\* A dense tensor is a sequence of rows; positions are 0-based as in the code.
NRows(x) == Len(x)

\* ind = tf.transpose([tf.range(tf.shape(x)[0]), self._pll_rand])
PllIndices(n_rows, pll_rand) == [i \in 1..n_rows |-> <<i - 1, pll_rand[i]>>]

\* tf.SparseTensor(indices=ind, values=ones_like(pll_rand), dense_shape=shape(x_))
SparseOnes(indices, shape) ==
    [indices |-> indices, values |-> [i \in DOMAIN indices |-> 1], dense_shape |-> shape]

\* tf.sparse_tensor_to_dense(m, default_value)
SparseToDense(m, default_value) ==
    [i \in 1..m.dense_shape[1] |-> [j \in 1..m.dense_shape[2] |->
        IF \E n \in DOMAIN m.indices : m.indices[n] = <<i - 1, j - 1>>
        THEN m.values[CHOOSE n \in DOMAIN m.indices : m.indices[n] = <<i - 1, j - 1>>]
        ELSE default_value]]

\* The mask with the dense conversion's own default (0) for the other entries.
CorruptMaskZeroDefault(m) ==
    LET d == SparseToDense(m, 0)
    IN  [i \in DOMAIN d |-> [j \in DOMAIN d[i] |-> 0 - d[i][j]]]

\* -tf.sparse_tensor_to_dense(m, default_value=-1)
CorruptMask(m) ==
    LET d == SparseToDense(m, 0 - 1)
    IN  [i \in DOMAIN d |-> [j \in DOMAIN d[i] |-> 0 - d[i][j]]]

\* tf.multiply(a, b), elementwise.
Multiply(a, b) == [i \in DOMAIN a |-> [j \in DOMAIN a[i] |-> a[i][j] * b[i][j]]]

\* tf.sparse_add(a, m) with a dense: the values of m added at its indices.
SparseAdd(a, m) ==
    LET z == SparseToDense(m, 0)
    IN  [i \in DOMAIN a |-> [j \in DOMAIN a[i] |-> a[i][j] + z[i][j]]]

InitPll ==
    /\ \E n_rows \in 0..MaxBatchRows, n_visible \in 1..MaxVisible :
       \E X_batch \in [1..n_rows -> [1..n_visible -> {0, 1}]],
          pll_rand \in [1..n_rows -> 0..(n_visible - 1)] :
          pll = [pc |-> "corrupt", n_visible |-> n_visible,
                 X_batch |-> X_batch, pll_rand |-> pll_rand,
                 x |-> <<>>, x_ |-> <<>>, m |-> <<>>]
    /\ batchIter = Idle /\ kfolds = Idle /\ cifar = Idle /\ trainOp = Idle /\ fit = Idle

\* x = self._X_batch; x_ = tf.identity(x); ind = ...; m = tf.SparseTensor(...)
PllBuildSparse ==
    /\ pll.pc = "corrupt"
    /\ pll' = [pll EXCEPT
          !.x = pll.X_batch,
          !.x_ = pll.X_batch,
          !.m = SparseOnes(PllIndices(NRows(pll.X_batch), pll.pll_rand),
                           <<NRows(pll.X_batch), pll.n_visible>>),
          !.pc = "multiply"]
    /\ UNCHANGED <<batchIter, kfolds, cifar, trainOp, fit>>

\* x_ = tf.multiply(x_, -tf.sparse_tensor_to_dense(m, default_value=-1))
PllMultiply ==
    /\ pll.pc = "multiply"
    /\ pll' = [pll EXCEPT !.x_ = Multiply(@, CorruptMask(pll.m)), !.pc = "sparse_add"]
    /\ UNCHANGED <<batchIter, kfolds, cifar, trainOp, fit>>

\* x_ = tf.sparse_add(x_, m)
PllSparseAdd ==
    /\ pll.pc = "sparse_add"
    /\ pll' = [pll EXCEPT !.x_ = SparseAdd(@, pll.m), !.pc = "done"]
    /\ UNCHANGED <<batchIter, kfolds, cifar, trainOp, fit>>

(* ------------------------------------------------------------------ *)
(* rbm.BaseRBM._fit                                                    *)
(* ------------------------------------------------------------------ *)
\* The free-energy difference run whenever validation data is given.
DfeDueEveryEpoch(has_val, epoch, compute_dfe_every_epoch) == has_val

\* if X_val is not None and self.epoch % self.compute_dfe_every_epoch == 0
DfeDue(has_val, epoch, compute_dfe_every_epoch) ==
    has_val /\ epoch % compute_dfe_every_epoch = 0

InitFit ==
    /\ \E max_epoch \in 0..MaxEpoch, compute_dfe_every_epoch \in 1..MaxDfeEvery,
          has_val \in BOOLEAN :
          fit = [pc |-> "while", epoch |-> 0, max_epoch |-> max_epoch,
                 compute_dfe_every_epoch |-> compute_dfe_every_epoch,
                 has_val |-> has_val, calls |-> <<>>]
    /\ batchIter = Idle /\ kfolds = Idle /\ cifar = Idle /\ trainOp = Idle /\ pll = Idle

\* while self.epoch < self.max_epoch: self.epoch += 1
FitNextEpoch ==
    /\ fit.pc = "while"
    /\ fit.epoch < fit.max_epoch
    /\ fit' = [fit EXCEPT !.epoch = @ + 1, !.pc = "train"]
    /\ UNCHANGED <<batchIter, kfolds, cifar, trainOp, pll>>

FitReturn ==
    /\ fit.pc = "while"
    /\ fit.epoch >= fit.max_epoch
    /\ fit' = [fit EXCEPT !.pc = "done"]
    /\ UNCHANGED <<batchIter, kfolds, cifar, trainOp, pll>>

\* train_msre, train_pll = self._train_epoch(X)
FitTrainEpoch ==
    /\ fit.pc = "train"
    /\ fit' = [fit EXCEPT !.calls = Append(@, <<fit.epoch, "_train_epoch">>),
                          !.pc = "val"]
    /\ UNCHANGED <<batchIter, kfolds, cifar, trainOp, pll>>

\* if X_val is not None: val_msre, val_pll = self._run_val_metrics(X_val)
FitValMetrics ==
    /\ fit.pc = "val"
    /\ fit.has_val
    /\ fit' = [fit EXCEPT !.calls = Append(@, <<fit.epoch, "_run_val_metrics">>),
                          !.pc = "dfe"]
    /\ UNCHANGED <<batchIter, kfolds, cifar, trainOp, pll>>

FitSkipValMetrics ==
    /\ fit.pc = "val"
    /\ ~fit.has_val
    /\ fit' = [fit EXCEPT !.pc = "dfe"]
    /\ UNCHANGED <<batchIter, kfolds, cifar, trainOp, pll>>

\* if X_val is not None and ...: dfe = self._run_dfe(X, X_val)
FitRunDfe ==
    /\ fit.pc = "dfe"
    /\ DfeDue(fit.has_val, fit.epoch, fit.compute_dfe_every_epoch)
    /\ fit' = [fit EXCEPT !.calls = Append(@, <<fit.epoch, "_run_dfe">>),
                          !.pc = "save"]
    /\ UNCHANGED <<batchIter, kfolds, cifar, trainOp, pll>>

FitSkipDfe ==
    /\ fit.pc = "dfe"
    /\ ~DfeDue(fit.has_val, fit.epoch, fit.compute_dfe_every_epoch)
    /\ fit' = [fit EXCEPT !.pc = "save"]
    /\ UNCHANGED <<batchIter, kfolds, cifar, trainOp, pll>>

\* self._save_model(global_step=self.epoch)
FitSaveModel ==
    /\ fit.pc = "save"
    /\ fit' = [fit EXCEPT !.calls = Append(@, <<fit.epoch, "_save_model">>),
                          !.pc = "while"]
    /\ UNCHANGED <<batchIter, kfolds, cifar, trainOp, pll>>

(* ------------------------------------------------------------------ *)
(* Specification                                                       *)
(* ------------------------------------------------------------------ *)
Init ==
    \/ InitBatchIter
    \/ InitKFolds
    \/ InitCifar
    \/ InitTrainOp
    \/ InitPll
    \/ InitFit

Next ==
    \/ BatchIterYield
    \/ BatchIterStop
    \/ KFoldsStart
    \/ KFoldsYieldPlain
    \/ KFoldsYieldStratified
    \/ KFoldsRaise
    \/ KFoldsReturn
    \/ SmallRbmOuter
    \/ SmallRbmInner
    \/ SmallRbmLast
    \/ CifarRestart
    \/ LargeWeightsOuter
    \/ LargeWeightsInner
    \/ LargeWeightsLast
    \/ TrainOpChainHead
    \/ TrainOpSweep
    \/ TrainOpTransform
    \/ TrainOpGrads
    \/ TrainOpMetrics
    \/ PllBuildSparse
    \/ PllMultiply
    \/ PllSparseAdd
    \/ FitNextEpoch
    \/ FitReturn
    \/ FitTrainEpoch
    \/ FitValMetrics
    \/ FitSkipValMetrics
    \/ FitRunDfe
    \/ FitSkipDfe
    \/ FitSaveModel

Spec == Init /\ [][Next]_vars

(* ------------------------------------------------------------------ *)
(* Claims                                                              *)
(* ------------------------------------------------------------------ *)
CeilDiv(a, b) == (a + b - 1) \div b

\* C1: batch_iter(X, batch_size) with N rows and batch_size >= 1 yields
\* exactly ceil(N / batch_size) batches in row order; batch k is rows
\* [k*batch_size, min((k+1)*batch_size, N)); every batch but possibly the
\* last has batch_size rows, the last has N mod batch_size rows when that is
\* non-zero; no batch is empty; the batches concatenated give X back.
C1_BatchIterContract ==
    batchIter.pc = "done" =>
        LET X == batchIter.X
            N == Len(X)
            bs == batchIter.batch_size
            out == batchIter.yielded
        IN  /\ Len(out) = CeilDiv(N, bs)
            /\ \A k \in 0..(Len(out) - 1) :
                  /\ Len(out[k + 1]) = Min((k + 1) * bs, N) - k * bs
                  /\ \A r \in 1..Len(out[k + 1]) : out[k + 1][r] = X[k * bs + r]
                  /\ k < Len(out) - 1 => Len(out[k + 1]) = bs
                  /\ Len(out[k + 1]) >= 1
            /\ (Len(out) > 0 /\ N % bs # 0) => Len(out[Len(out)]) = N % bs
            /\ Concatenate(out) = X
            /\ (N = 0 => out = <<>>)

\* Witness for C1: a finished iteration whose last batch is a short one.
C1_Witness ==
    /\ batchIter.pc = "done"
    /\ Len(batchIter.yielded) >= 2
    /\ Len(batchIter.X) % batchIter.batch_size # 0

\* ---- make_k_folds ----
Abs(a) == IF a < 0 THEN -a ELSE a

\* The finished calls of make_k_folds in this behaviour.
FinishedCalls == IF kfolds.pc = "idle" THEN {} ELSE DOMAIN kfolds.results

\* How many positions of the folds hold index idx.
Occurrences(folds, idx) ==
    Cardinality({fp \in (DOMAIN folds) \X (0..MaxSamples + 1) :
                    /\ fp[2] \in DOMAIN folds[fp[1]]
                    /\ folds[fp[1]][fp[2]] = idx})

IsPartition(folds, n) ==
    /\ \A idx \in 0..(n - 1) : Occurrences(folds, idx) = 1
    /\ \A f \in DOMAIN folds : \A p \in DOMAIN folds[f] : folds[f][p] \in 0..(n - 1)

\* How many indices of the fold carry label c.
ClassCount(fold, y, c) ==
    Cardinality({p \in DOMAIN fold : y[fold[p] + 1] = c})

\* C2: make_k_folds yields exactly n_folds folds and the folds partition
\* {0, ..., len(y)-1}, for every combination of shuffle and stratify,
\* including len(y) < n_folds.
C2_FoldsPartition ==
    \A r \in FinishedCalls :
        /\ kfolds.results[r].status = "returned"
        /\ Len(kfolds.results[r].folds) = kfolds.n_folds
        /\ IsPartition(kfolds.results[r].folds, Len(kfolds.y))

\* The partition property on the calls that C2's failing input leaves out:
\* every call with a non-empty y, or without stratification.
KFoldsPartitionUnlessEmptyStratified ==
    \A r \in FinishedCalls :
        (Len(kfolds.y) > 0 \/ ~kfolds.stratify) =>
            /\ kfolds.results[r].status = "returned"
            /\ Len(kfolds.results[r].folds) = kfolds.n_folds
            /\ IsPartition(kfolds.results[r].folds, Len(kfolds.y))

\* C3: for every y and every n_folds > 1, stratified or not, the sizes of
\* any two yielded folds differ by at most 1.
C3_FoldSizesBalanced ==
    \A r \in FinishedCalls :
        LET folds == kfolds.results[r].folds
        IN  \A f, g \in DOMAIN folds : Abs(Len(folds[f]) - Len(folds[g])) <= 1

\* The balance that does hold: without stratification the fold sizes differ
\* by at most 1, with it by at most the number of distinct labels.
KFoldsSizesWithinLabelCount ==
    \A r \in FinishedCalls :
        LET folds == kfolds.results[r].folds
            slack == IF kfolds.stratify THEN Cardinality(LabelsOf(kfolds.y)) ELSE 1
        IN  \A f, g \in DOMAIN folds : Abs(Len(folds[f]) - Len(folds[g])) <= slack

\* C4: with stratify=True every fold gets floor or ceil of count(c)/n_folds
\* indices of each class c, so for any two folds the class counts differ by
\* at most 1, whether or not the folds are shuffled.
C4_StratifiedClassBalance ==
    \A r \in FinishedCalls :
        kfolds.stratify =>
            LET folds == kfolds.results[r].folds
                y == kfolds.y
            IN  \A c \in LabelsOf(y) :
                    LET total == Len(IndicesOf(y, c))
                        lo == total \div kfolds.n_folds
                        hi == CeilDiv(total, kfolds.n_folds)
                    IN  /\ Len(folds) = kfolds.n_folds
                        /\ \A f \in DOMAIN folds :
                              ClassCount(folds[f], y, c) \in {lo, hi}
                        /\ \A f, g \in DOMAIN folds :
                              Abs(ClassCount(folds[f], y, c)
                                  - ClassCount(folds[g], y, c)) <= 1

\* Witness for C4: a finished stratified, shuffled call in which a class
\* does not divide evenly, so some folds hold one more of it than others.
C4_Witness ==
    /\ kfolds.pc = "done"
    /\ kfolds.stratify /\ kfolds.shuffle
    /\ \E c \in LabelsOf(kfolds.y) :
          /\ Len(IndicesOf(kfolds.y, c)) % kfolds.n_folds >= 2
          /\ \E f, g \in DOMAIN kfolds.results[2].folds :
                ClassCount(kfolds.results[2].folds[f], kfolds.y, c)
                    # ClassCount(kfolds.results[2].folds[g], kfolds.y, c)

SmallRbmWithId(k) ==
    CHOOSE r \in {cifar.small_rbms[n] : n \in DOMAIN cifar.small_rbms} : r.id = k

SmallRbmsReturned ==
    cifar.pc \in {"large_outer", "large_inner", "large_last", "done"}

\* C6: hidden units 300*k .. 300*k+299 of the large RBM belong to small RBM
\* k for every k in 0..25 (the blocks are disjoint and cover all 7800 hidden
\* units, and hb is the concatenation of the small hb vectors in id order),
\* and for k in 0..24 the weights of block k are zero at every pixel outside
\* the 8x8 patch make_small_rbms trains RBM k on.
C6_LargeWeightsBlocks ==
    cifar.pc = "done" =>
        /\ \A h \in 0..(NHiddenSmall * NSmallRbms - 1) :
              LET k == h \div NHiddenSmall
              IN  /\ k \in 0..(NSmallRbms - 1)
                  /\ WOwners(h) = {k}
                  /\ HbAt(h) = <<k, h - NHiddenSmall * k>>
        /\ \A k \in 0..(NSmallRbms - 2) :
              LET data == SmallRbmWithId(k).data
              IN  /\ data.kind = "patch"
                  /\ data.rows[2] - data.rows[1] = PatchSide
                  /\ data.cols[2] - data.cols[1] = PatchSide
                  /\ \A h \in (NHiddenSmall * k)..(NHiddenSmall * (k + 1) - 1) :
                        WSupport(h) \subseteq Rect(data.rows, data.cols)

\* Witness for C6: the assembly is finished, after a restart that made some
\* of the small RBMs come from disk, and an inner-grid block is non-zero
\* somewhere on its patch.
C6_Witness ==
    /\ cifar.pc = "done"
    /\ cifar.restarts > 0
    /\ WSupport(NHiddenSmall * (NSmallRbms - 2)) # {}

\* The list make_small_rbms returns holds the RBMs in id order, and the
\* patches of RBMs 0..15 and of RBMs 16..24 tile the image and its interior.
SmallRbmsOrderAndTiling ==
    SmallRbmsReturned =>
        LET rbms == cifar.small_rbms
            outer == 1..(GridOuter * GridOuter)
            inner == (GridOuter * GridOuter + 1)..(NSmallRbms - 1)
            Holders(S, px) ==
                {n \in S : rbms[n].data.kind = "patch"
                           /\ px \in Rect(rbms[n].data.rows, rbms[n].data.cols)}
            interior == Rect(<<InnerOffset, ImageSide - InnerOffset>>,
                             <<InnerOffset, ImageSide - InnerOffset>>)
        IN  /\ Len(rbms) = NSmallRbms
            /\ \A n \in DOMAIN rbms : rbms[n].id = n - 1
            /\ \A px \in Pixels : Cardinality(Holders(outer, px)) = 1
            /\ \A px \in interior : Cardinality(Holders(inner, px)) = 1
            /\ \A px \in Pixels \ interior : Holders(inner, px) = {}

\* The pixels of the 4x4 block that pixel <<b, e>> of the pooled image stands for.
PoolBlock(be) ==
    Rect(<<PoolSide * be[1], PoolSide * (be[1] + 1)>>,
         <<PoolSide * be[2], PoolSide * (be[2] + 1)>>)

\* Pixel <<b, e>> of RBM 25's training images is the mean of its 4x4 block.
LastRbmPoolsBlocks ==
    SmallRbmsReturned =>
        LET data == cifar.small_rbms[NSmallRbms].data
        IN  /\ data.kind = "mean"
            /\ \A be \in DOMAIN data.sources : data.sources[be] = PoolBlock(be)

\* C7: make_small_rbms returns exactly 26 RBMs, element k being the RBM with
\* id k; the patches of RBMs 0..15 tile the 32x32 image (every pixel in
\* exactly one), the patches of RBMs 16..24 tile rows/columns 4..27 (every
\* interior pixel in exactly one, no border pixel in any), and RBM 25 is
\* trained on the whole image averaged over 4x4 pixel blocks.
C7_SmallRbmsContract == SmallRbmsOrderAndTiling /\ LastRbmPoolsBlocks

\* ---- BaseRBM._make_train_op ----
\* trainOp.fed lists, sweep by sweep, the states each conditional was given:
\* h_states to _sample_v_given_h, then v_states to _sample_h_given_v.
\* In the Gibbs chain the hidden units driven by the data are passed on as
\* sampled states, those driven by a reconstruction as probabilities, and
\* the visible units as probabilities.
ChainUsesStatesAsCommented ==
    trainOp.pc # "idle" => \A n \in DOMAIN trainOp.fed :
        LET used == trainOp.fed[n]
        IN  /\ (used.layer = "h" /\ used.driven = "data") => used.kind = "samples"
            /\ (used.layer = "h" /\ used.driven = "recon") => used.kind = "means"
            /\ used.layer = "v" => used.kind = "means"
            /\ used.layer \in {"h", "v"}

\* The visible-unit factors of the gradient estimates are probabilities.
GradsUseVisibleProbabilities ==
    trainOp.pc = "done" =>
        /\ trainOp.dW_positive[1].kind = "data"
        /\ trainOp.dW_negative[1].kind = "means"
        /\ trainOp.dvb[1].kind = "data"
        /\ trainOp.dvb[2].kind = "means"

\* C8: in the contrastive-divergence step sampled binary states are used for
\* the hidden units driven by the data, probabilities for the hidden units
\* driven by reconstructions, and probabilities (not sampled binary states)
\* for the visible units, in every Gibbs sweep and in the gradient estimates
\* dW and dvb.
C8_StatesAndProbabilities ==
    ChainUsesStatesAsCommented /\ GradsUseVisibleProbabilities

\* ---- pseudo-log-likelihood corruption ----
\* C9: for a batch x with entries in {0,1} and pll_rand[i] in
\* 0..n_visible-1, x_[i][pll_rand[i]] = 1 - x[i][pll_rand[i]] for every row
\* i and x_[i][j] = x[i][j] for every other column j; x itself is unchanged.
C9_SingleFeatureCorruption ==
    pll.pc = "done" =>
        /\ pll.x = pll.X_batch
        /\ DOMAIN pll.x_ = DOMAIN pll.x
        /\ \A i \in DOMAIN pll.x :
              /\ DOMAIN pll.x_[i] = DOMAIN pll.x[i]
              /\ \A j \in DOMAIN pll.x[i] :
                    pll.x_[i][j] = IF j - 1 = pll.pll_rand[i]
                                   THEN 1 - pll.x[i][j] ELSE pll.x[i][j]

\* Witness for C9: a corrupted batch of two rows, flipped in different
\* columns, with a 1 left untouched and a 1 flipped to 0.
C9_Witness ==
    /\ pll.pc = "done"
    /\ NRows(pll.x) >= 2
    /\ pll.pll_rand[1] # pll.pll_rand[2]
    /\ \E i \in DOMAIN pll.x : \E j, k \in DOMAIN pll.x[i] :
          /\ j - 1 = pll.pll_rand[i] /\ pll.x[i][j] = 1 /\ pll.x_[i][j] = 0
          /\ k # j /\ pll.x[i][k] = 1 /\ pll.x_[i][k] = 1

\* ---- BaseRBM._fit ----
\* The calls of epoch e in the order C10 states.
ExpectedEpochCalls(e) ==
    <<<<e, "_train_epoch">>>>
    \o (IF fit.has_val THEN <<<<e, "_run_val_metrics">>>> ELSE <<>>)
    \o (IF fit.has_val /\ e % fit.compute_dfe_every_epoch = 0
        THEN <<<<e, "_run_dfe">>>> ELSE <<>>)
    \o <<<<e, "_save_model">>>>

RECURSIVE ExpectedCalls(_)
ExpectedCalls(e) == IF e = 0 THEN <<>> ELSE ExpectedCalls(e - 1) \o ExpectedEpochCalls(e)

\* C10: during _fit the validation metrics are computed once after every
\* epoch iff X_val is given; the free-energy difference is computed exactly
\* on the epochs that are multiples of compute_dfe_every_epoch when X_val is
\* given and never otherwise; each epoch runs training, then validation
\* metrics, then the free-energy difference, then the model save.
C10_FitEpochSchedule ==
    /\ fit.pc \in {"while", "done"} => fit.calls = ExpectedCalls(fit.epoch)
    /\ fit.pc = "done" => fit.epoch = fit.max_epoch
    /\ fit.pc \in {"train", "val", "dfe", "save"} =>
          /\ SubSeq(fit.calls, 1, Len(ExpectedCalls(fit.epoch - 1)))
                = ExpectedCalls(fit.epoch - 1)
          /\ \A n \in 1..Len(fit.calls) : n > Len(ExpectedCalls(fit.epoch - 1)) =>
                fit.calls[n] = ExpectedEpochCalls(fit.epoch)[n - Len(ExpectedCalls(fit.epoch - 1))]

\* Witness for C10: a finished fit with validation data in which some epoch
\* computed the free-energy difference and some epoch did not.
C10_Witness ==
    /\ fit.pc = "done"
    /\ fit.has_val
    /\ \E n, m \in DOMAIN fit.calls :
          /\ fit.calls[n][2] = "_run_dfe"
          /\ fit.calls[m][2] = "_save_model"
          /\ \A q \in DOMAIN fit.calls :
                fit.calls[q][1] = fit.calls[m][1] => fit.calls[q][2] # "_run_dfe"
====
